---- MODULE Spec2Model ----
(***************************************************************************)
(* A model of PaperRename (rename.py, map_manager.py).                     *)
(*                                                                         *)
(* Python strings are sequences of one-character strings, so that the      *)
(* string functions (replace, strip, startswith, the regular expressions)  *)
(* are computed character by character, as the code computes them.         *)
(***************************************************************************)
EXTENDS Integers, Sequences, FiniteSets, TLC

VARIABLES
    arg,          \* the argument of the function under test (pure-function specifications)
    ret,          \* what it returned so far
    pdf_files,    \* main: the collected list of paths
    idx,          \* main: position of the for loop in pdf_files (1-based)
    pc,           \* main: the statement the loop body is at
    fs,           \* the file system: path -> the document stored there
    registry,     \* doi.org: identifier -> metadata (or NoMeta)
    ACRONYM_MAP,  \* rename.py's global, loaded once by main
    map_file,     \* the JSON table on disk (an ordered dict)
    loc,          \* main / extract_best_doi_from_first_page: the local variables
    hist          \* history: what the run did (insert_entry calls, caught errors, ...)

vars == <<arg, ret, pdf_files, idx, pc, fs, registry, ACRONYM_MAP, map_file, loc, hist>>

mainVars == <<pdf_files, idx, pc, fs, registry, ACRONYM_MAP, map_file, loc, hist>>

pureVars == <<arg, ret>>

-----------------------------------------------------------------------------
(* Bounds of the model.                                                    *)

MaxLen == 4        \* longest string given to smart_filename_transform
MaxApply == 2      \* how often the transform is applied in a row
MaxCands == 3      \* longest candidate list given to prefer_specific_dois
MaxFiles == 2      \* longest batch (pdf_files)

-----------------------------------------------------------------------------
(* Strings.                                                                *)

\* Python's None, for each type of value the model holds
None == "None"
NoStr == <<"None">>
NoMeta == [none |-> TRUE]
NoPath == [dir |-> "", name |-> <<>>]

RECURSIVE Concat(_)
Concat(ss) == IF ss = <<>> THEN <<>> ELSE Head(ss) \o Concat(Tail(ss))

Last(s) == s[Len(s)]

Chars(s) == {s[i] : i \in 1..Len(s)}

UpperAlphabet ==
    <<"A", "B", "C", "D", "E", "F", "G", "H", "I", "J", "K", "L", "M",
      "N", "O", "P", "Q", "R", "S", "T", "U", "V", "W", "X", "Y", "Z">>
LowerAlphabet ==
    <<"a", "b", "c", "d", "e", "f", "g", "h", "i", "j", "k", "l", "m",
      "n", "o", "p", "q", "r", "s", "t", "u", "v", "w", "x", "y", "z">>
UpperLetters == {UpperAlphabet[i] : i \in 1..26}
LowerLetters == {LowerAlphabet[i] : i \in 1..26}
Letters == UpperLetters \cup LowerLetters
Digits == {"0", "1", "2", "3", "4", "5", "6", "7", "8", "9"}
Whitespace == {" ", "\n", "\t"}

\* str.lower on one character
LowerChar(c) ==
    IF c \in UpperLetters
    THEN LowerAlphabet[CHOOSE i \in 1..26 : UpperAlphabet[i] = c]
    ELSE c

Lower(s) == [i \in 1..Len(s) |-> LowerChar(s[i])]

\* str.startswith
StartsWith(d, c) == Len(d) >= Len(c) /\ SubSeq(d, 1, Len(c)) = c

\* Python's `sub in s`
Contains(s, sub) ==
    \E i \in 1..(Len(s) - Len(sub) + 1) : SubSeq(s, i, i + Len(sub) - 1) = sub

\* str.isdigit
IsDigitStr(s) == Len(s) > 0 /\ \A i \in 1..Len(s) : s[i] \in Digits

-----------------------------------------------------------------------------
(* smart_filename_transform (rename.py 30-47).                             *)

\* the mapping dict, in its insertion order
mapping ==
    << <<" ", <<"_">> >>, <<":", <<"=">> >>, <<"/", <<"-">> >>, <<"\\", <<"-">> >>,
       <<"|", <<"-">> >>, <<"*", <<>> >>, <<"?", <<>> >>, <<"\"", <<"'">> >>,
       <<"<", <<>> >>, <<">", <<>> >> >>

\* str.replace(old, new) for a one-character old
RECURSIVE Replace(_, _, _)
Replace(s, old, new) ==
    IF s = <<>> THEN <<>>
    ELSE (IF Head(s) = old THEN new ELSE <<Head(s)>>) \o Replace(Tail(s), old, new)

\* for old, new in mapping.items(): filename = filename.replace(old, new)
RECURSIVE ReplaceAll(_, _)
ReplaceAll(s, m) ==
    IF m = <<>> THEN s
    ELSE ReplaceAll(Replace(s, Head(m)[1], Head(m)[2]), Tail(m))

\* re.sub(r'c{2,}', 'c', s): every maximal run of two or more c becomes one c
RECURSIVE CollapseRuns(_, _)
CollapseRuns(s, c) ==
    IF Len(s) < 2 THEN s
    ELSE IF s[1] = c /\ s[2] = c THEN CollapseRuns(Tail(s), c)
    ELSE <<Head(s)>> \o CollapseRuns(Tail(s), c)

RECURSIVE LStrip(_, _)
LStrip(s, cs) == IF s # <<>> /\ Head(s) \in cs THEN LStrip(Tail(s), cs) ELSE s

RECURSIVE RStrip(_, _)
RStrip(s, cs) ==
    IF s # <<>> /\ Last(s) \in cs THEN RStrip(SubSeq(s, 1, Len(s) - 1), cs) ELSE s

\* str.strip(chars)
Strip(s, cs) == RStrip(LStrip(s, cs), cs)

\* a transform that forgets to collapse the runs the replacements create
Mutant_smart_filename_transform(filename) ==
    Strip(ReplaceAll(CollapseRuns(CollapseRuns(filename, "_"), "-"), mapping),
          {"_", "-", "="})

smart_filename_transform(filename) ==
    Strip(CollapseRuns(CollapseRuns(ReplaceAll(filename, mapping), "_"), "-"),
          {"_", "-", "="})

-----------------------------------------------------------------------------
(* _preclean_text (rename.py 50-54).                                       *)

\* the superscript digits, one character each ("sup1" stands for U+00B9)
Superscripts == {"sup0", "sup1", "sup2", "sup3"}

\* unicodedata.normalize('NFKC', c): a superscript digit becomes the digit
NFKC(c) ==
    CASE c = "sup0" -> "0" [] c = "sup1" -> "1" [] c = "sup2" -> "2"
      [] c = "sup3" -> "3" [] OTHER -> c

\* text.translate(superscripts): the superscript digits are deleted
RECURSIVE Translate(_)
Translate(s) ==
    IF s = <<>> THEN <<>>
    ELSE (IF Head(s) \in Superscripts THEN <<>> ELSE <<Head(s)>>) \o Translate(Tail(s))

_preclean_text(text) == Translate([i \in 1..Len(text) |-> NFKC(text[i])])

-----------------------------------------------------------------------------
(* CROSSREF_DOI_RE (rename.py 14-16):                                      *)
(*   (?i)\b10\.\d{4,9}/[-._;()/:A-Z0-9]+(?=$|[\s\)\]\}\.,;:<>\"\'\?])         *)

DigMin == 4
DigMax == 9

\* \w
WordChar(c) == c \in Letters \cup Digits \cup {"_"}

\* [-._;()/:A-Z0-9] under (?i)
DoiClass == {"-", ".", "_", ";", "(", ")", "/", ":"} \cup Letters \cup Digits

\* the characters of the lookahead [\s\)\]\}\.,;:<>\"\'\?]
Boundary ==
    Whitespace \cup {")", "]", "}", ".", ",", ";", ":", "<", ">", "\"", "'", "?"}

\* the length of the longest run of characters of cs that starts at t[p]
RECURSIVE RunLen(_, _, _)
RunLen(t, p, cs) ==
    IF p <= Len(t) /\ t[p] \in cs THEN 1 + RunLen(t, p + 1, cs) ELSE 0

\* (?=$|[...]) at position e (the first position after the match)
LookaheadOk(t, e) == e = Len(t) + 1 \/ t[e] \in Boundary

\* The match of the pattern that starts at t[p]: the position after its last
\* character, or 0 when the pattern does not match there. The greedy suffix run
\* backtracks to the longest prefix the lookahead accepts.
MatchAt(t, p) ==
    LET n == RunLen(t, p + 3, Digits)
        q == p + 3 + n + 1
        r == q + RunLen(t, q, DoiClass)
        ends == {e \in (q + 1)..r : LookaheadOk(t, e)}
    IN  IF /\ p + 2 <= Len(t)
           /\ (p = 1 \/ ~WordChar(t[p - 1]))
           /\ SubSeq(t, p, p + 2) = <<"1", "0", ".">>
           /\ n >= DigMin /\ n <= DigMax
           /\ p + 3 + n <= Len(t) /\ t[p + 3 + n] = "/"
           /\ ends # {}
        THEN CHOOSE e \in ends : \A f \in ends : f <= e
        ELSE 0

\* {m.group(0) for m in CROSSREF_DOI_RE.finditer(text)}, scanning from t[p]
RECURSIVE FindAll(_, _)
FindAll(t, p) ==
    IF p > Len(t) THEN {}
    ELSE LET e == MatchAt(t, p)
         IN  IF e = 0 THEN FindAll(t, p + 1)
             ELSE {SubSeq(t, p, e - 1)} \cup FindAll(t, e)

-----------------------------------------------------------------------------
(* clean_doi_list (rename.py 73-100).                                      *)

\* the alternatives of (Files|PDF|Abstract|Full.*Text|Download) without a wildcard
PlainMarkers ==
    { <<"f", "i", "l", "e", "s">>, <<"p", "d", "f">>,
      <<"a", "b", "s", "t", "r", "a", "c", "t">>,
      <<"d", "o", "w", "n", "l", "o", "a", "d">> }

\* whether one alternative matches at s[i], ignoring case
MarkerAt(s, i) ==
    LET rest == Lower(SubSeq(s, i, Len(s)))
    IN  \/ \E m \in PlainMarkers : StartsWith(rest, m)
        \/ /\ StartsWith(rest, <<"f", "u", "l", "l">>)
           /\ Contains(SubSeq(rest, 5, Len(rest)), <<"t", "e", "x", "t">>)

\* a cleaner that leaves the markers in
Mutant_CutMarkers(doi) == doi

\* re.sub(r'(Files|PDF|Abstract|Full.*Text|Download).*$', '', doi, flags=re.I):
\* the string is cut where the leftmost marker starts
CutMarkers(doi) ==
    LET at == {i \in 1..Len(doi) : MarkerAt(doi, i)}
    IN  IF at = {} THEN doi
        ELSE SubSeq(doi, 1, (CHOOSE i \in at : \A j \in at : i <= j) - 1)

\* re.match(r'^10\.\d+/.+[^.]$', s) and not s.endswith('.')
ValidShape(s) ==
    LET n == RunLen(s, 4, Digits)
    IN  /\ Len(s) >= 3 /\ SubSeq(s, 1, 3) = <<"1", "0", ".">>
        /\ n >= 1
        /\ 3 + n + 1 <= Len(s) /\ s[3 + n + 1] = "/"
        /\ Len(s) - (3 + n + 1) >= 2
        /\ Last(s) # "."

RECURSIVE clean_doi_list(_)
clean_doi_list(cands) ==
    IF cands = <<>> THEN <<>>
    ELSE LET doi == Head(cands)
             doi_clean == Strip(CutMarkers(doi), Whitespace)
         IN  (IF doi # <<>> /\ ValidShape(doi_clean) THEN <<doi_clean>> ELSE <<>>)
             \o clean_doi_list(Tail(cands))

-----------------------------------------------------------------------------
(* prefer_specific_dois (rename.py 57-71).                                 *)

\* the characters of ".-_/"
Continuation == {".", "-", "_", "/"}

\* a check that takes any longer candidate with the prefix for a more specific one
Mutant_IsParentOf(c, d) == d # c /\ StartsWith(d, c) /\ Len(d) > Len(c)

\* the inner loop's test: d makes c a parent to drop
IsParentOf(c, d) ==
    /\ d # c /\ StartsWith(d, c) /\ Len(d) > Len(c)
    /\ d[Len(c) + 1] \in Continuation

\* the list keep after the two loops
Keep(cands) ==
    SelectSeq(cands, LAMBDA c : ~(\E i \in 1..Len(cands) : IsParentOf(c, cands[i])))

\* the lists that hold every element of the set S once
Orderings(S) ==
    {f \in [1..Cardinality(S) -> S] : \A i, j \in 1..Cardinality(S) : f[i] = f[j] => i = j}

\* sorted(set(keep), key=len, reverse=True): the sort is stable and a set of
\* strings iterates in no fixed order, so candidates of equal length come in
\* any order. The operator is the set of lists the call can return.
prefer_specific_dois(cands) ==
    {f \in Orderings(Chars(Keep(cands))) :
        \A i \in 1..(Len(f) - 1) : Len(f[i]) >= Len(f[i + 1])}

-----------------------------------------------------------------------------
(* extract_all_dois_from_text (rename.py 103-107): the lists it can return *)

extract_all_dois_from_text(text) ==
    UNION {prefer_specific_dois(clean_doi_list(cands)) :
              cands \in Orderings(FindAll(_preclean_text(text), 1))}

-----------------------------------------------------------------------------
(* extract_paper_title (rename.py 202-240).                                *)

TitleMinLen == 5
TitleMaxLen == 300
ShoutLen == 10

\* text.splitlines(), for the line break "\n"
RECURSIVE SplitLines(_, _)
SplitLines(t, cur) ==
    IF t = <<>> THEN (IF cur = <<>> THEN <<>> ELSE <<cur>>)
    ELSE IF Head(t) = "\n" THEN <<cur>> \o SplitLines(Tail(t), <<>>)
    ELSE SplitLines(Tail(t), Append(cur, Head(t)))

\* [l.strip() for l in text.splitlines() if l.strip()]
StrippedLines(text) ==
    LET ls == SplitLines(text, <<>>)
        st == [i \in 1..Len(ls) |-> Strip(ls[i], Whitespace)]
    IN  SelectSeq(st, LAMBDA l : l # <<>>)

\* any(re.search(pat, line, flags=re.I) for pat in ignore_patterns)
Ignored(line) ==
    LET low == Lower(line)
        n == RunLen(line, 1, Digits)
        w == RunLen(line, n + 1, Whitespace)
    IN  \/ StartsWith(low, <<"d", "o", "i">>)                       \* ^doi\s*:?
        \/ /\ StartsWith(low, <<"d", "o", "i">>)                    \* ^DOI\s
           /\ Len(line) >= 4 /\ line[4] \in Whitespace
        \/ Contains(low, <<"p", "r", "o", "c", "e", "e", "d", "i", "n", "g", "s", " ", "o", "f">>)
        \/ Contains(low, <<"a", "r", "x", "i", "v", " ", "p", "r", "e", "p", "r", "i", "n", "t">>)
        \/ Contains(low, <<"c", "o", "p", "y", "r", "i", "g", "h", "t">>)
        \/ Contains(low, <<"w", "w", "w", ".">>)
        \/ (n >= 1 /\ n = Len(line))                                \* ^\d+$
        \/ /\ n >= 1                                                \* ^\d+\s*(c)
           /\ \E k \in 0..w : n + k + 1 <= Len(line) /\ line[n + k + 1] = "csign"
        \/ Contains(low, <<"l", "i", "c", "e", "n", "s", "e">>)

\* str.isupper: a cased character, and no lower-case one
IsUpperStr(s) ==
    /\ \E i \in 1..Len(s) : s[i] \in UpperLetters
    /\ \A i \in 1..Len(s) : s[i] \notin LowerLetters

\* re.sub(r"\s+", " ", s)
RECURSIVE SquashSpace(_)
SquashSpace(s) ==
    IF s = <<>> THEN <<>>
    ELSE IF Head(s) \in Whitespace
         THEN <<" ">> \o SquashSpace(LStrip(Tail(s), Whitespace))
         ELSE <<Head(s)>> \o SquashSpace(Tail(s))

extract_paper_title(text) ==
    LET filtered == SelectSeq(StrippedLines(text), LAMBDA l : ~Ignored(l))
        candidates ==
            SelectSeq(filtered,
                      LAMBDA l : /\ TitleMinLen < Len(l) /\ Len(l) < TitleMaxLen
                                 /\ ~(IsUpperStr(l) /\ Len(l) > ShoutLen))
        combined == candidates[1] \o <<" ">> \o candidates[2]
        title ==
            IF /\ Len(candidates) > 1
               /\ (candidates[2][1] \in UpperLetters \/ candidates[2][1] \in Digits)
               /\ Last(candidates[2]) # "."
               /\ Len(combined) < TitleMaxLen
            THEN combined
            ELSE candidates[1]
    IN  IF filtered = <<>> \/ candidates = <<>> THEN NoStr
        ELSE Strip(SquashSpace(title), Whitespace)

-----------------------------------------------------------------------------
(* The registry, _try_fetch and fetch_doi_metadata (rename.py 110-136).    *)

\* _try_fetch: the record of the registry on HTTP 200; NoMeta on any other
\* status, a timeout or a connection error (up = FALSE)
_try_fetch(reg, doi, up) ==
    IF up /\ doi \in DOMAIN reg THEN reg[doi] ELSE NoMeta

\* the numbers of characters the fallback strips
TrimSteps == <<1, 2>>

\* a fallback that strips trailing characters without asking whether they are digits
Mutant_Trimmable(doi, k) == Len(doi) > k

\* len(doi) > k and doi[-k:].isdigit()
Trimmable(doi, k) ==
    Len(doi) > k /\ IsDigitStr(SubSeq(doi, Len(doi) - k + 1, Len(doi)))

\* the for loop over k, from position ki of TrimSteps; log holds the lookups
\* issued so far in this call, net[n] whether the n-th lookup gets through
RECURSIVE TrimLoop(_, _, _, _, _)
TrimLoop(reg, doi, ki, log, net) ==
    IF ki > Len(TrimSteps) THEN [meta |-> NoMeta, log |-> log]
    ELSE LET k == TrimSteps[ki]
             trimmed == SubSeq(doi, 1, Len(doi) - k)
             meta == _try_fetch(reg, trimmed, net[Len(log) + 1])
         IN  IF ~Trimmable(doi, k) THEN TrimLoop(reg, doi, ki + 1, log, net)
             ELSE IF meta # NoMeta THEN [meta |-> meta, log |-> Append(log, trimmed)]
             ELSE TrimLoop(reg, doi, ki + 1, Append(log, trimmed), net)

\* what the call returns (meta) and the lookups it issued, in order (log)
fetch_doi_metadata(reg, doi, net) ==
    LET meta == _try_fetch(reg, doi, net[1])
    IN  IF meta # NoMeta THEN [meta |-> meta, log |-> <<doi>>]
        ELSE TrimLoop(reg, doi, 1, <<doi>>, net)

\* the network during one call: at most 1 + Len(TrimSteps) lookups
Nets == [1..(1 + Len(TrimSteps)) -> BOOLEAN]

-----------------------------------------------------------------------------
(* Metadata records and their fields (rename.py 139-165).                  *)
(* A record of the registry: author (whether the author list is non-empty),*)
(* type, the year of each date field (NoYear when the field or its year is *)
(* missing), title and container_title.                                    *)

\* year_from returning None
NoYear == -1

\* the date fields, in the order _get_year asks them
YearKeys == <<"issued", "published_print", "published_online", "created">>

\* the for loop over the date fields, from position i
RECURSIVE YearFrom(_, _)
YearFrom(metadata, i) ==
    IF i > Len(YearKeys) THEN NoYear
    ELSE LET y == metadata[YearKeys[i]]
         IN  IF y # NoYear /\ y # 0 THEN y ELSE YearFrom(metadata, i + 1)

_get_year(metadata) == YearFrom(metadata, 1)

_get_title(metadata) == Strip(metadata.title, Whitespace)

_get_container(metadata) == Strip(metadata.container_title, Whitespace)

\* str(n) for n >= 0
RECURSIVE IntToStr(_)
IntToStr(n) ==
    LET d == <<"0", "1", "2", "3", "4", "5", "6", "7", "8", "9">>[(n % 10) + 1]
    IN  IF n < 10 THEN <<d>> ELSE Append(IntToStr(n \div 10), d)

-----------------------------------------------------------------------------
(* map_manager.py: the table is an ordered dict, a list of <<key, value>>. *)

Keys(m) == {m[i][1] : i \in 1..Len(m)}

\* insert_entry (map_manager.py 24-28): load_map, data[key] = value, save_map.
\* Assigning to a key the dict holds keeps the key's place.
insert_entry(data, key, value) ==
    IF key \in Keys(data)
    THEN [i \in 1..Len(data) |-> IF data[i][1] = key THEN <<key, value>> ELSE data[i]]
    ELSE Append(data, <<key, value>>)

-----------------------------------------------------------------------------
(* generate_filename (rename.py 168-185).                                  *)

Unkonwn == <<"U", "n", "k", "o", "n", "w", "n">>
unknown == <<"u", "n", "k", "n", "o", "w", "n">>
untitled == <<"u", "n", "t", "i", "t", "l", "e", "d">>

\* the entries of the table the for loop would stop at: full.lower() in container.lower()
Hits(map, container) ==
    {i \in 1..Len(map) : Contains(Lower(container), Lower(map[i][1]))}

\* The filename, and the key the call hands to insert_entry (None when the for
\* loop found an entry and the else branch did not run).
generate_filename(metadata, map) ==
    LET title == _get_title(metadata)
        y == _get_year(metadata)
        year == IF y # NoYear THEN IntToStr(y) ELSE unknown
        container == IF _get_container(metadata) # <<>> THEN _get_container(metadata)
                     ELSE unknown
        hits == Hits(map, container)
        venue == IF hits # {}
                 THEN map[CHOOSE i \in hits : \A j \in hits : i <= j][2]
                 ELSE smart_filename_transform(container)
        title_safe == smart_filename_transform(IF title # <<>> THEN title ELSE untitled)
    IN  [filename |-> <<"[">> \o year \o <<"]", "+", "[">> \o venue
                      \o <<"]", "-", "-">> \o title_safe,
         insert |-> IF hits # {} THEN NoStr ELSE container]

-----------------------------------------------------------------------------
(* Paths and the file system.                                              *)

\* os.path.join(os.path.dirname(pdf_path), filename + ".pdf")
NewPath(pdf_path, filename) ==
    [dir |-> pdf_path.dir, name |-> filename \o <<".", "p", "d", "f">>]

\* f"[year]-[Conference]++{guess_title}" written without the transform's result
Mutant_PlaceholderName(guess_title) ==
    <<"[", "y", "e", "a", "r", "]", "-", "[", "C", "o", "n", "f", "e", "r", "e",
      "n", "c", "e", "]", "+", "+">> \o guess_title

\* guess_title = smart_filename_transform(guess_title);
\* filename = f"[year]-[Conference]++{guess_title}"
PlaceholderName(guess_title) ==
    <<"[", "y", "e", "a", "r", "]", "-", "[", "C", "o", "n", "f", "e", "r", "e",
      "n", "c", "e", "]", "+", "+">> \o smart_filename_transform(guess_title)

\* os.rename(src, dst) on a POSIX file system: a file at dst is replaced
os_rename(files, src, dst) ==
    [p \in (DOMAIN files \ {src}) \cup {dst} |-> IF p = dst THEN files[src] ELSE files[p]]

\* a check that never sees the target
Mutant_os_path_exists(files, path) == FALSE

\* os.path.exists(new_path)
os_path_exists(files, path) == path \in DOMAIN files

\* os.path.isfile(pdf_path)
os_path_isfile(files, path) == path \in DOMAIN files

-----------------------------------------------------------------------------
(* The inputs of a run: first pages, registry records, tables, files.      *)

DA == <<"1", "0", ".", "1", "2", "3", "4", "/", "a", ".", "b">>
DB == <<"1", "0", ".", "1", "2", "3", "4", "/", "a", ".", "b", "1">>
DC == <<"1", "0", ".", "5", "5", "5", "5", "/", "c", "d">>

\* first pages: a title alone, a title and an identifier with a footnote mark,
\* a title and two identifiers, an identifier alone, no text
PageTitle == <<"G", "o", "o", "d", " ", "T", "i", "t", "l", "e">>
PageFootnote ==
    <<"G", "o", "o", "d", " ", "T", "i", "t", "l", "e", "\n", "d", "o", "i", ":",
      "1", "0", ".", "1", "2", "3", "4", "/", "a", ".", "b", "sup1">>
PageTwo ==
    <<"G", "o", "o", "d", " ", "T", "i", "t", "l", "e", "\n",
      "1", "0", ".", "5", "5", "5", "5", "/", "c", "d", " ",
      "1", "0", ".", "1", "2", "3", "4", "/", "a", ".", "b">>
PageDoi == <<"d", "o", "i", ":", "1", "0", ".", "5", "5", "5", "5", "/", "c", "d">>
Pages == {PageTitle, PageFootnote, PageTwo, PageDoi, <<>>}

\* what PdfReader and extract_text can do instead of giving the text
ReadErrors == {"open_error", "no_pages", "extract_error"}

MJ == [author |-> TRUE, type |-> "journal-article", issued |-> 2021,
       published_print |-> NoYear, published_online |-> NoYear, created |-> 2022,
       title |-> <<"T", ":", " ", "x">>, container_title |-> <<"A", "b">>]
MB == [author |-> TRUE, type |-> "book", issued |-> NoYear,
       published_print |-> NoYear, published_online |-> NoYear, created |-> 2020,
       title |-> <<>>, container_title |-> <<>>]
MK == [author |-> FALSE, type |-> "proceedings-article", issued |-> NoYear,
       published_print |-> NoYear, published_online |-> NoYear, created |-> NoYear,
       title |-> <<"T", ":", " ", "x">>, container_title |-> <<"x", " ", "a", "B">>]

\* the registries of the model: what doi.org holds for each identifier
\* (an identifier outside the domain is unknown to doi.org: HTTP 404)
Registries ==
    {r \in [{DA, DC} -> {NoMeta, MJ, MB, MK}] :
        /\ r[DA] \in {NoMeta, MJ, MB}
        /\ r[DC] \in {NoMeta, MJ, MK}}

\* the table file before the run: empty, curated, or left by an earlier run
Tables ==
    { <<>>,
      << <<<<"a", "b">>, <<"A", "B">>>> >>,
      << <<<<"A", "b">>, Unkonwn>> >> }

FileA == [dir |-> "papers", name |-> <<"a", ".", "p", "d", "f">>]
FileB == [dir |-> "papers", name |-> <<"b", ".", "p", "d", "f">>]

\* files that may lie in the directory before the run
OldMeta ==
    [dir |-> "papers",
     name |-> <<"[", "2", "0", "2", "1", "]", "+", "[", "A", "b", "]", "-", "-",
                "T", "=", "_", "x", ".", "p", "d", "f">>]
OldPlaceholder ==
    [dir |-> "papers",
     name |-> <<"[", "y", "e", "a", "r", "]", "-", "[", "C", "o", "n", "f", "e",
                "r", "e", "n", "c", "e", "]", "+", "+", "G", "o", "o", "d", "_",
                "T", "i", "t", "l", "e", ".", "p", "d", "f">>]

\* the lists collect_pdf_files can give: every path was a file when it was
\* collected; a path named twice on the command line is listed twice. The two
\* files are alike, so the lists that start with FileA stand for all.
Batches == {b \in UNION {[1..n -> {FileA, FileB}] : n \in 1..MaxFiles} : b[1] = FileA}

-----------------------------------------------------------------------------
(* main (rename.py 288-346) and extract_best_doi_from_first_page (242-285) *)

preferred_types == {"journal-article", "proceedings-article", "posted-content", "report"}

\* a strict pass that asks for authors only
Mutant_Qualifies(meta) == meta.author

\* meta.get("author") and (meta.get("type") in preferred_types)
Qualifies(meta) == meta.author /\ meta.type \in preferred_types

\* the locals before a document is opened
Idle ==
    [read |-> None, candidates |-> <<>>, title |-> NoStr, j |-> 0, doi |-> NoStr,
     metadata |-> NoMeta, new_path |-> NoPath, via |-> None]

NoOutcome == [kind |-> "none", via |-> None]

IdleHist == [inserts |-> <<>>, faulted |-> FALSE, last |-> NoOutcome]

pdf_path == pdf_files[idx]

\* whether a lookup the call issued did not get through
Faulted(r, net) == \E n \in 1..Len(r.log) : ~net[n]

\* `continue`, or the end of the loop body: on to the next path
Continue(kind) ==
    /\ pc' = "loop"
    /\ idx' = idx + 1
    /\ loc' = Idle
    /\ hist' = [hist EXCEPT !.faulted = FALSE, !.last = [kind |-> kind, via |-> loc.via]]

\* an exception that leaves the loop
Mutant_except_Exception ==
    /\ pc' = "aborted"
    /\ idx' = idx
    /\ loc' = Idle
    /\ hist' = [hist EXCEPT !.faulted = FALSE, !.last = [kind |-> "error", via |-> loc.via]]

\* except Exception as e: print(...), and the for loop goes on
except_Exception ==
    /\ pc' = "loop"
    /\ idx' = idx + 1
    /\ loc' = Idle
    /\ hist' = [hist EXCEPT !.faulted = FALSE, !.last = [kind |-> "error", via |-> loc.via]]

Init ==
    /\ arg = None /\ ret = None
    /\ pdf_files \in Batches
    /\ idx = 1
    /\ pc = "loop"
    /\ \E old \in SUBSET {OldMeta, OldPlaceholder} :
           fs = [p \in {pdf_files[i] : i \in 1..Len(pdf_files)} \cup old |->
                    IF p \in old THEN "old" ELSE p.name]
    /\ registry \in Registries
    /\ map_file \in Tables
    /\ ACRONYM_MAP = map_file            \* ACRONYM_MAP = map_manager.load_map()
    /\ loc = Idle
    /\ hist = IdleHist

\* the for loop is past the last path
Finish ==
    /\ pc = "loop" /\ idx > Len(pdf_files)
    /\ pc' = "done"
    /\ UNCHANGED <<arg, ret, pdf_files, idx, fs, registry, ACRONYM_MAP, map_file, loc, hist>>

\* if not os.path.isfile(pdf_path): continue
SkipMissing ==
    /\ pc = "loop" /\ idx <= Len(pdf_files)
    /\ ~os_path_isfile(fs, pdf_path)
    /\ Continue("missing")
    /\ UNCHANGED <<arg, ret, pdf_files, fs, registry, ACRONYM_MAP, map_file>>

\* extract_best_doi_from_first_page, up to the first for loop: the reader
\* fails, or there are no pages, or the text cannot be extracted (each
\* returns None, None), or the candidates and the title are extracted
OpenPdf ==
    /\ pc = "loop" /\ idx <= Len(pdf_files)
    /\ os_path_isfile(fs, pdf_path)
    /\ \/ \E e \in ReadErrors :
             /\ pc' = "branch"
             /\ loc' = [Idle EXCEPT !.read = e]
       \/ \E text \in Pages : \E cands \in extract_all_dois_from_text(text) :
             /\ pc' = "strict"
             /\ loc' = [Idle EXCEPT !.read = "ok", !.candidates = cands,
                                    !.title = extract_paper_title(text), !.j = 1]
    /\ UNCHANGED <<arg, ret, pdf_files, idx, fs, registry, ACRONYM_MAP, map_file, hist>>

\* for doi in candidates (the strict pass): one turn of the loop
StrictStep ==
    /\ pc = "strict" /\ loc.j <= Len(loc.candidates)
    /\ \E net \in Nets :
         LET doi == loc.candidates[loc.j]
             r == fetch_doi_metadata(registry, doi, net)
         IN  /\ hist' = [hist EXCEPT !.faulted = @ \/ Faulted(r, net)]
             /\ IF r.meta # NoMeta /\ Qualifies(r.meta)
                THEN pc' = "branch" /\ loc' = [loc EXCEPT !.doi = doi]    \* return doi, title
                ELSE pc' = "strict" /\ loc' = [loc EXCEPT !.j = @ + 1]
    /\ UNCHANGED <<arg, ret, pdf_files, idx, fs, registry, ACRONYM_MAP, map_file>>

\* the strict pass accepted no candidate: the second for loop starts
StrictEnd ==
    /\ pc = "strict" /\ loc.j > Len(loc.candidates)
    /\ pc' = "relaxed"
    /\ loc' = [loc EXCEPT !.j = 1]
    /\ UNCHANGED <<arg, ret, pdf_files, idx, fs, registry, ACRONYM_MAP, map_file, hist>>

\* for doi in candidates (the relaxed pass): one turn of the loop
RelaxedStep ==
    /\ pc = "relaxed" /\ loc.j <= Len(loc.candidates)
    /\ \E net \in Nets :
         LET doi == loc.candidates[loc.j]
             r == fetch_doi_metadata(registry, doi, net)
         IN  /\ hist' = [hist EXCEPT !.faulted = @ \/ Faulted(r, net)]
             /\ IF r.meta # NoMeta
                THEN pc' = "branch" /\ loc' = [loc EXCEPT !.doi = doi]    \* return doi, title
                ELSE pc' = "relaxed" /\ loc' = [loc EXCEPT !.j = @ + 1]
    /\ UNCHANGED <<arg, ret, pdf_files, idx, fs, registry, ACRONYM_MAP, map_file>>

\* return None, title
RelaxedEnd ==
    /\ pc = "relaxed" /\ loc.j > Len(loc.candidates)
    /\ pc' = "branch"
    /\ UNCHANGED <<arg, ret, pdf_files, idx, fs, registry, ACRONYM_MAP, map_file, loc, hist>>

\* if not doi: the placeholder filename. smart_filename_transform(None)
\* raises AttributeError, which the except clause of main catches.
Placeholder ==
    /\ pc = "branch" /\ loc.doi = NoStr
    /\ IF loc.title = NoStr
       THEN except_Exception
       ELSE /\ pc' = "rename"
            /\ loc' = [loc EXCEPT !.via = "placeholder",
                                   !.new_path = NewPath(pdf_path, PlaceholderName(loc.title))]
            /\ UNCHANGED <<idx, hist>>
    /\ UNCHANGED <<arg, ret, pdf_files, fs, registry, ACRONYM_MAP, map_file>>

\* metadata = fetch_doi_metadata(doi); if not metadata: print, continue
Refetch ==
    /\ pc = "branch" /\ loc.doi # NoStr
    /\ \E net \in Nets :
         LET r == fetch_doi_metadata(registry, loc.doi, net)
         IN  IF r.meta = NoMeta
             THEN Continue("nometa")
             ELSE /\ pc' = "genname"
                  /\ loc' = [loc EXCEPT !.metadata = r.meta]
                  /\ UNCHANGED <<idx, hist>>
    /\ UNCHANGED <<arg, ret, pdf_files, fs, registry, ACRONYM_MAP, map_file>>

\* filename = generate_filename(metadata), with its call of insert_entry: the
\* table file is loaded, changed and written back, or reading or writing it
\* raises, which the except clause of main catches
GenerateName ==
    /\ pc = "genname"
    /\ LET g == generate_filename(loc.metadata, ACRONYM_MAP)
           named == /\ pc' = "rename"
                    /\ idx' = idx
                    /\ loc' = [loc EXCEPT !.via = "metadata",
                                           !.new_path = NewPath(pdf_path, g.filename)]
       IN  \/ /\ g.insert = NoStr
              /\ named
              /\ UNCHANGED <<map_file, hist>>
           \/ /\ g.insert # NoStr
              /\ named
              /\ map_file' = insert_entry(map_file, g.insert, Unkonwn)
              /\ hist' = [hist EXCEPT !.inserts = Append(@, g.insert)]
           \/ /\ g.insert # NoStr
              /\ except_Exception
              /\ UNCHANGED map_file
    /\ UNCHANGED <<arg, ret, pdf_files, fs, registry, ACRONYM_MAP>>

\* if os.path.exists(new_path): print, continue; os.rename(pdf_path, new_path),
\* which renames or raises OSError
Rename ==
    /\ pc = "rename"
    /\ \/ /\ os_path_exists(fs, loc.new_path)
          /\ Continue("conflict")
          /\ UNCHANGED fs
       \/ /\ ~os_path_exists(fs, loc.new_path)
          /\ fs' = os_rename(fs, pdf_path, loc.new_path)
          /\ Continue("renamed")
       \/ /\ ~os_path_exists(fs, loc.new_path)
          /\ except_Exception
          /\ UNCHANGED fs
    /\ UNCHANGED <<arg, ret, pdf_files, registry, ACRONYM_MAP, map_file>>

Next ==
    \/ Finish
    \/ SkipMissing
    \/ OpenPdf
    \/ StrictStep
    \/ StrictEnd
    \/ RelaxedStep
    \/ RelaxedEnd
    \/ Placeholder
    \/ Refetch
    \/ GenerateName
    \/ Rename

Spec == Init /\ [][Next]_vars

-----------------------------------------------------------------------------
(* Specifications of the functions on their own: the argument is drawn in  *)
(* the initial state, the action applies the function.                     *)

\* the variables of main, which these specifications leave alone
NoRun ==
    /\ pdf_files = <<>> /\ idx = 0
    /\ fs = <<>> /\ ACRONYM_MAP = <<>> /\ map_file = <<>>
    /\ loc = Idle /\ hist = IdleHist

\* the strings of at most n characters of A
Strings(A, n) == UNION {[1..k -> A] : k \in 0..n}

\* characters the transform replaces, drops, collapses, strips and keeps
TransformAlphabet == {" ", ":", "/", "*", "\"", "_", "-", "=", "a"}

InitTransform ==
    /\ arg \in Strings(TransformAlphabet, MaxLen)
    /\ ret = <<>>
    /\ pc = "call" /\ registry = <<>> /\ NoRun

\* smart_filename_transform applied to the argument, then to its own result
Transform ==
    /\ pc = "call" /\ Len(ret) < MaxApply
    /\ ret' = Append(ret, smart_filename_transform(IF ret = <<>> THEN arg ELSE Last(ret)))
    /\ UNCHANGED <<arg, mainVars>>

SpecTransform == InitTransform /\ [][Transform]_vars

\* candidates: a parent, its extensions by a continuation character and by
\* another character, a chain of three, and an unrelated one of equal length
PreferPool ==
    { <<"1", "0", ".", "1", "/", "1">>,
      <<"1", "0", ".", "1", "/", "1", ".", "2">>,
      <<"1", "0", ".", "1", "/", "1", "2">>,
      <<"1", "0", ".", "1", "/", "1", ".", "2", "-", "3">>,
      <<"1", "0", ".", "1", "/", "2">> }

InitPrefer ==
    /\ arg \in Strings(PreferPool, MaxCands)
    /\ ret = <<>>
    /\ pc = "call" /\ registry = <<>> /\ NoRun

Prefer ==
    /\ pc = "call"
    /\ ret' \in prefer_specific_dois(arg)
    /\ pc' = "returned"
    /\ UNCHANGED <<arg, pdf_files, idx, fs, registry, ACRONYM_MAP, map_file, loc, hist>>

SpecPrefer == InitPrefer /\ [][Prefer]_vars

\* A text: something before, a well-formed identifier, prose glued onto it, the rest
TextBefore == { <<>>, <<"d", "o", "i", ":">>, <<"s", "e", "e", " ">> }
TextIds ==
    { <<"1", "0", ".", "1", "2", "3", "4", "/", "a", "b">>,
      <<"1", "0", ".", "1", "2", "3", "4", "/", "a", ".", "b">>,
      <<"1", "0", ".", "1", "2", "3", "4", "5", "/", "c", "-", "7">> }
TextProse ==
    { <<"T", "h", "e">>, <<"s", "e", "e">>, <<"F", "i", "l", "e", "s">>,
      <<"P", "D", "F">>, <<"A", "b", "s", "t", "r", "a", "c", "t">>,
      <<"d", "o", "w", "n", "l", "o", "a", "d">>,
      <<"F", "u", "l", "l", "T", "e", "x", "t">> }
TextAfter == { <<>>, <<" ">>, <<" ", "o", "f", " ", "i", "t">>, <<".", " ">> }

TextOf(a) == a.before \o a.id \o a.prose \o a.after

InitExtract ==
    /\ arg \in [before : TextBefore, id : TextIds, prose : TextProse, after : TextAfter]
    /\ ret = <<>>
    /\ pc = "call" /\ registry = <<>> /\ NoRun

Extract ==
    /\ pc = "call"
    /\ ret' \in extract_all_dois_from_text(TextOf(arg))
    /\ pc' = "returned"
    /\ UNCHANGED <<arg, pdf_files, idx, fs, registry, ACRONYM_MAP, map_file, loc, hist>>

SpecExtract == InitExtract /\ [][Extract]_vars

\* identifiers that end in no digit, one digit, two digits; one of two characters
FetchDois ==
    { DA, DB, <<"1", "0", ".", "1", "2", "3", "4", "/", "a", ".", "b", "1", "2">>,
      <<"1", "2">> }

InitFetch ==
    /\ arg \in [doi : FetchDois, net : Nets]
    /\ ret = [meta |-> NoMeta, log |-> <<>>]
    /\ registry \in [FetchDois \cup {<<"1">>} -> {NoMeta, MJ}]
    /\ pc = "call" /\ NoRun

Fetch ==
    /\ pc = "call"
    /\ ret' = fetch_doi_metadata(registry, arg.doi, arg.net)
    /\ pc' = "returned"
    /\ UNCHANGED <<arg, pdf_files, idx, fs, registry, ACRONYM_MAP, map_file, loc, hist>>

SpecFetch == InitFetch /\ [][Fetch]_vars

-----------------------------------------------------------------------------
(* The claims.                                                             *)

\* the document at src has been moved to dst by the step
Moved(src, dst) ==
    /\ src \notin DOMAIN fs'
    /\ dst \in DOMAIN fs' /\ fs'[dst] = fs[src]
    /\ \A p \in DOMAIN fs \ {src, dst} : p \in DOMAIN fs' /\ fs'[p] = fs[p]

\* the step went on to the next path of the list
NextPath == pc' = "loop" /\ idx' = idx + 1

\* C1: on both rename paths, when the target path exists the rename is
\* skipped: the file system is left as it is (the original stays where it was,
\* the file at the target is not overwritten), no exception is raised, and the
\* loop goes on with the next path; no step of a batch makes the number of
\* files smaller.
C1_ExistingTargetSkipped ==
    [][ /\ (pc = "rename" /\ loc.new_path \in DOMAIN fs) =>
             (fs' = fs /\ NextPath /\ hist'.last.kind = "conflict")
        /\ Cardinality(DOMAIN fs') >= Cardinality(DOMAIN fs) ]_vars

\* C1 witness: the path before was skipped for a conflict on the metadata
\* path and is still a file, and the placeholder target of this one exists too
C1_Witness ==
    /\ pc = "rename" /\ loc.via = "placeholder" /\ loc.new_path \in DOMAIN fs
    /\ hist.last = [kind |-> "conflict", via |-> "metadata"]
    /\ pdf_files[idx - 1] \in DOMAIN fs
    /\ pdf_files[idx - 1] # pdf_path

\* the place of a statement in the loop body
StageNo(l) ==
    CASE l = "loop" -> 0 [] l = "strict" -> 1 [] l = "relaxed" -> 2 [] l = "branch" -> 3
      [] l = "genname" -> 4 [] l = "rename" -> 5 [] l = "done" -> 6 [] OTHER -> 7

\* a step moves on: to a later path, or to a later statement of the body, or
\* to the next candidate of the pass it is in
MovesOn ==
    \/ idx' = idx + 1 /\ idx' <= Len(pdf_files) + 1
    \/ idx' = idx /\ StageNo(pc') > StageNo(pc)
    \/ /\ idx' = idx /\ pc' = pc
       /\ loc'.j = loc.j + 1 /\ loc'.j <= Len(loc.candidates) + 1

\* C2: whatever fails while one document is handled, no exception leaves the
\* loop, and every step moves on, so that the loop reaches the end of the
\* list, where it is done (every statement of the body but the end has a step).
C2_BatchRunsToTheEnd ==
    /\ [](/\ pc # "aborted"
          /\ pc = "done" => idx = Len(pdf_files) + 1)
    /\ [][MovesOn]_vars

\* C2 witness: an exception was caught and the loop stands at a later path
C2_Witness ==
    /\ pc = "loop" /\ hist.last.kind = "error"
    /\ idx <= Len(pdf_files) /\ pdf_path \in DOMAIN fs

\* C3 (as claimed): insert_entry is called at most once for each container
\* name: once a name was inserted, a later generate_filename call with that
\* name finds it and inserts nothing.
C3_InsertedOncePerName ==
    \A i, j \in 1..Len(hist.inserts) : hist.inserts[i] = hist.inserts[j] => i = j

\* the filename of the placeholder path, spelled out
PlaceholderPath(path, title) ==
    [dir |-> path.dir,
     name |-> <<"[", "y", "e", "a", "r", "]", "-", "[", "C", "o", "n", "f", "e", "r",
                "e", "n", "c", "e", "]", "+", "+">>
              \o smart_filename_transform(title) \o <<".", "p", "d", "f">>]

\* C4 (as claimed): when no identifier was selected and a title was extracted,
\* the document is renamed to the placeholder filename.
C4_AlwaysRenamedToPlaceholder ==
    [][ (pc = "rename" /\ loc.via = "placeholder") => Moved(pdf_path, loc.new_path) ]_vars

\* C4 (amended): when no identifier was selected, a document without a title
\* (or whose text could not be read) stays where it is and the loop goes on;
\* a document with a title gets the placeholder filename with the sanitized
\* title, and is renamed to it unless that path exists or os.rename fails, in
\* which cases it stays where it is.
C4_PlaceholderUnlessConflict ==
    [][ /\ (pc = "branch" /\ loc.doi = NoStr /\ loc.title = NoStr) =>
             (fs' = fs /\ NextPath)
        /\ (pc = "branch" /\ loc.doi = NoStr /\ loc.title # NoStr) =>
             /\ pc' = "rename" /\ fs' = fs
             /\ loc'.new_path = PlaceholderPath(pdf_path, loc.title)
        /\ (pc = "rename" /\ loc.via = "placeholder") =>
             /\ NextPath
             /\ IF loc.new_path \in DOMAIN fs THEN fs' = fs
                ELSE \/ Moved(pdf_path, loc.new_path)
                     \/ fs' = fs /\ hist'.last.kind = "error" ]_vars

\* C4 witness: a document was renamed to its placeholder filename
C4_Witness ==
    /\ hist.last = [kind |-> "renamed", via |-> "placeholder"]
    /\ PlaceholderPath(FileA, PageTitle) \in DOMAIN fs
    /\ fs[PlaceholderPath(FileA, PageTitle)] # "old"

\* C5 (as claimed): no document is given up because a lookup failed; after a
\* failed lookup the document goes on with the next candidate or strategy.
C5_FailedLookupNeverAbandons == hist.last.kind # "nometa"

\* what the registry answers for a candidate when every lookup gets through
Resolved(c) == fetch_doi_metadata(registry, c, [n \in 1..3 |-> TRUE]).meta

\* the identifier the selection policy names for a list of candidates
Selected(cands) ==
    LET strict == {i \in 1..Len(cands) :
                     /\ Resolved(cands[i]) # NoMeta
                     /\ Resolved(cands[i]).author
                     /\ Resolved(cands[i]).type \in
                          {"journal-article", "proceedings-article", "posted-content", "report"}}
        relaxed == {i \in 1..Len(cands) : Resolved(cands[i]) # NoMeta}
        First(S) == cands[CHOOSE i \in S : \A j \in S : i <= j]
    IN  IF strict # {} THEN First(strict)
        ELSE IF relaxed # {} THEN First(relaxed)
        ELSE NoStr

\* C6: with a registry that answers consistently (no lookup of the selection
\* failed in the network), the first candidate with authors and a preferred
\* type is selected, else the first that resolves, else none.
C6_SelectionPolicy ==
    (pc = "branch" /\ loc.read = "ok" /\ ~hist.faulted) => loc.doi = Selected(loc.candidates)

\* C6 witness: the second candidate was selected although the first resolves
C6_Witness ==
    /\ pc = "branch" /\ loc.read = "ok" /\ ~hist.faulted
    /\ Len(loc.candidates) = 2 /\ loc.doi = loc.candidates[2]
    /\ Resolved(loc.candidates[1]) # NoMeta

\* c is a strict prefix of a candidate of the list that goes on with . - _ or /
Subsumed(c, cands) ==
    \E i \in 1..Len(cands) :
        /\ Len(cands[i]) > Len(c)
        /\ SubSeq(cands[i], 1, Len(c)) = c
        /\ cands[i][Len(c) + 1] \in {".", "-", "_", "/"}

\* C7: a candidate of the list is in the result of prefer_specific_dois if and
\* only if no candidate of the list extends it by a continuation character;
\* the result holds candidates of the list only, none twice, in the order of
\* non-increasing length.
C7_PreferSpecific ==
    pc = "returned" =>
        /\ \A i \in 1..Len(arg) :
              (\E k \in 1..Len(ret) : ret[k] = arg[i]) <=> ~Subsumed(arg[i], arg)
        /\ \A k \in 1..Len(ret) : \E i \in 1..Len(arg) : ret[k] = arg[i]
        /\ \A k, l \in 1..Len(ret) : ret[k] = ret[l] => k = l
        /\ \A k \in 1..(Len(ret) - 1) : Len(ret[k]) >= Len(ret[k + 1])

\* C7 witness: of 10.1/1, 10.1/1.2 and 10.1/12 the parent 10.1/1 is dropped
\* for 10.1/1.2, and 10.1/12 (no continuation character) is kept
C7_Witness ==
    /\ pc = "returned" /\ Len(arg) = 3
    /\ <<"1", "0", ".", "1", "/", "1">> \in Chars(arg)
    /\ ret = << <<"1", "0", ".", "1", "/", "1", ".", "2">>,
                <<"1", "0", ".", "1", "/", "1", "2">> >>

MarkerProse ==
    { <<"F", "i", "l", "e", "s">>, <<"P", "D", "F">>,
      <<"A", "b", "s", "t", "r", "a", "c", "t">>,
      <<"d", "o", "w", "n", "l", "o", "a", "d">>,
      <<"F", "u", "l", "l", "T", "e", "x", "t">> }

FilenameSafe(s) ==
    /\ \A i \in 1..Len(s) : s[i] \notin {" ", ":", "/", "\\", "|", "*", "?", "<", ">", "\""}
    /\ \A i \in 1..(Len(s) - 1) : ~(s[i] = s[i + 1] /\ s[i] \in {"_", "-"})
    /\ s # <<>> => (s[1] \notin {"_", "-", "="} /\ s[Len(s)] \notin {"_", "-", "="})

\* C9: smart_filename_transform is idempotent (applied to its own result it
\* returns it unchanged), and its result is filename-safe.
C9_Idempotent ==
    /\ \A k \in 2..Len(ret) : ret[k] = ret[k - 1]
    /\ \A k \in 1..Len(ret) : FilenameSafe(ret[k])

\* C9 witness: the first application changed the string, the second did not
C9_Witness ==
    /\ Len(ret) >= 2 /\ ret[1] # arg /\ ret[1] # <<>> /\ ret[2] = ret[1]
    /\ Len(ret[1]) >= 3

\* the lookups fetch_doi_metadata may issue for an identifier, in order: the
\* identifier, then it without its last digit, then without its last two digits
Variants(doi) ==
    LET n == Len(doi)
    IN  <<doi>>
        \o (IF n > 1 /\ doi[n] \in Digits THEN <<SubSeq(doi, 1, n - 1)>> ELSE <<>>)
        \o (IF n > 2 /\ doi[n] \in Digits /\ doi[n - 1] \in Digits
            THEN <<SubSeq(doi, 1, n - 2)>> ELSE <<>>)

\* C10: the call looks the identifier up as given, then its trailing-digit
\* trims in order, stops at the first lookup that succeeds and returns its
\* metadata; when every lookup fails it has issued all of them, no more, and
\* returns None.
C10_FetchOrder ==
    pc = "returned" =>
        LET V == Variants(arg.doi)
            Got(n) == IF arg.net[n] /\ V[n] \in DOMAIN registry THEN registry[V[n]]
                      ELSE NoMeta
            ok == {n \in 1..Len(V) : Got(n) # NoMeta}
            first == CHOOSE n \in ok : \A m \in ok : n <= m
        IN  IF ok = {} THEN ret = [meta |-> NoMeta, log |-> V]
            ELSE ret = [meta |-> Got(first), log |-> SubSeq(V, 1, first)]

\* C10 witness: the lookup without the last two digits succeeded after the
\* other two had failed
C10_Witness ==
    /\ pc = "returned" /\ Len(ret.log) = 3 /\ ret.meta # NoMeta
    /\ arg.net[1] /\ arg.net[2]

====
